---- MODULE Spec2Model ----
(***************************************************************************)
(* mdz_ansi_16: a contiguous single-byte string attached to a caller-owned *)
(* buffer (4 reserved bytes + Data + 0-terminator), with Size and Capacity *)
(* metadata.  The interface and its contracts are those of mdz_ansi_16.h;  *)
(* the bodies of the functions are not part of the header and are modelled *)
(* from the design description (byte shifts, Boyer-Moore-Horspool scan,    *)
(* back-to-front rewrite).                                                 *)
(*                                                                         *)
(* Addresses are content offsets: Data occupies addresses 0..Capacity.     *)
(* A pointer argument is NULL, a pointer to an unrelated external buffer   *)
(* carrying its own bytes, or a pointer into the string's own buffer.      *)
(***************************************************************************)
EXTENDS Integers, Sequences, FiniteSets, TLC

\* ---------------------------------------------------------------- bounds
\* largest Capacity of an attached buffer in the model
MaxCap == 3
\* largest byte value; bytes are 0..MaxByte, 0 is also a legal content byte
MaxByte == 1
\* longest external items array passed to a call
MaxCount == 2
\* longest string and longest pattern of the substring-search runs
MaxFindCap == 4
MaxFindCount == 3

\* ----------------------------------------------------- program constants
\* minimal pcBuffer size: 4 reserved bytes + 0-terminator
MinBufferSize == 5
\* not-found / error result of the search functions, (size_t)-1
SIZE_MAX == -1
\* nBufferSize is an unsigned short
USHRT_MAX == 65535

Byte == 0..MaxByte

Max(S) == CHOOSE m \in S : \A k \in S : k <= m
Min(S) == CHOOSE m \in S : \A k \in S : m <= k

\* --------------------------------------------------------------- pointers
NullPtr == [k |-> "null", off |-> 0, bytes |-> << >>]
ExtPtr(s) == [k |-> "ext", off |-> 0, bytes |-> s]
IntPtr(o) == [k |-> "int", off |-> o, bytes |-> << >>]

\* the nCount bytes a pointer designates, read from memory d (the Data area)
Deref(p, n, d) ==
  IF p.k = "ext" THEN SubSeq(p.bytes, 1, n)
  ELSE [i \in 1..n |-> d[p.off + i - 1]]

\* the same test with the area taken half-open, its last address left out
OverlapsAreaOpen(p, n, last) ==
  /\ p.k = "int"
  /\ n > 0
  /\ p.off < last
  /\ p.off + n - 1 >= 0

\* address ranges [Data; Data + last] and [p; p + n) share an address
OverlapsArea(p, n, last) ==
  /\ p.k = "int"
  /\ n > 0
  /\ p.off <= last
  /\ p.off + n - 1 >= 0

ExtSeqs(n) == UNION {[1..k -> Byte] : k \in 1..n}

\* items arguments of the search functions: NULL, a zero count, external arrays
ExtItems == {<<NullPtr, 1>>, <<NullPtr, 0>>, <<ExtPtr(<<0>>), 0>>} \cup
            {<<ExtPtr(s), Len(s)>> : s \in ExtSeqs(MaxCount)}

\* items arguments of the byte-set functions: only the set of bytes matters, so
\* one ascending array stands for every array of the same bytes
SetItems == {pn \in ExtItems :
               \A i \in 1..(pn[2] - 1) : pn[1].bytes[i] < pn[1].bytes[i + 1]}

\* arrays that live inside the string's own buffer of capacity c
OwnItems(c) ==
  {pn \in {<<IntPtr(o), n>> : o \in 0..c, n \in 1..MaxCount} : pn[1].off + pn[2] - 1 <= c}

\* ------------------------------------------------------------------ state
VARIABLES
  license,    \* process-wide licensing flag set by mdz_ansi_16_init
  attached,   \* a handle returned by mdz_ansi_16_attach exists
  size,       \* Size metadata
  capacity,   \* Capacity metadata
  data,       \* Data: bytes at content offsets 0..Capacity
  pc,         \* the caller: "idle" between calls, "returned" with a call's result
  call,       \* the call that returned: function, arguments, error, returned value
  pre,        \* the string as it was when that call started
  inserted    \* a successful insert, kept while the very next call is made

vars == <<license, attached, size, capacity, data, pc, call, pre, inserted>>

\* the string a call receives (psAnsi is NULL while nothing is attached)
Str == [attached |-> attached, size |-> size, capacity |-> capacity, data |-> data]

NoCall == [op |-> "none", nBufferSize |-> 0, pcBuffer |-> NullPtr,
           nLeftPos |-> 0, nRightPos |-> 0, pcItems |-> NullPtr, nCount |-> 0,
           pcItemsAfter |-> NullPtr, nCountAfter |-> 0, bFromLeft |-> TRUE,
           bFlag |-> TRUE, enReplacementType |-> "MDZ_ANSI_REPLACE_DUAL",
           cItem |-> 0, err |-> "MDZ_ERROR_NONE", ret |-> 0]

NoStr == [attached |-> FALSE, size |-> 0, capacity |-> 0, data |-> [i \in {0} |-> 0]]

NoInsert == [st |-> "none", nLeftPos |-> 0, nCount |-> 0, before |-> NoStr]

\* ------------------------------------------------------- precondition checks
E(violated, error) == IF violated THEN error ELSE "MDZ_ERROR_NONE"

\* the error of the first violated check of a list of checks
FirstError(checks) ==
  LET bad == {i \in DOMAIN checks : checks[i] # "MDZ_ERROR_NONE"}
  IN IF bad = {} THEN "MDZ_ERROR_NONE" ELSE checks[Min(bad)]

\* Capacity a 16-bit buffer size cannot give
TooLarge(c) == c > USHRT_MAX - MinBufferSize

ChkLicense(lic) == E(~lic, "MDZ_ERROR_LICENSE")
ChkData(s) == E(~s.attached, "MDZ_ERROR_DATA")
ChkCapacity(s) == E(TooLarge(s.capacity), "MDZ_ERROR_CAPACITY")
ChkCapacityNonZero(s) == E(s.capacity = 0 \/ TooLarge(s.capacity), "MDZ_ERROR_CAPACITY")
ChkBigSize(s) == E(s.size > s.capacity, "MDZ_ERROR_BIG_SIZE")
ChkTerminator(s) == E(s.size \in DOMAIN s.data /\ s.data[s.size] # 0, "MDZ_ERROR_TERMINATOR")
ChkZeroSize(s) == E(s.size = 0, "MDZ_ERROR_ZERO_SIZE")
ChkItems(p) == E(p.k = "null", "MDZ_ERROR_ITEMS")
ChkZeroCount(n) == E(n = 0, "MDZ_ERROR_ZERO_COUNT")
ChkBigRight(s, r) == E(r >= s.size, "MDZ_ERROR_BIG_RIGHT")
ChkBigLeftLoose(l, r) == E(l > r + 1, "MDZ_ERROR_BIG_LEFT")
ChkBigLeft(l, r) == E(l > r, "MDZ_ERROR_BIG_LEFT")
ChkBigCount(l, r, n) == E(n > r - l + 1, "MDZ_ERROR_BIG_COUNT")

\* what a call gives back: the error, the returned value, Size and Data afterwards
Failed(s, e, r) == [err |-> e, ret |-> r, size |-> s.size, data |-> s.data]
ReadOnly(s, r) == [err |-> "MDZ_ERROR_NONE", ret |-> r, size |-> s.size, data |-> s.data]
Written(sz, d) == [err |-> "MDZ_ERROR_NONE", ret |-> "MDZ_ERROR_NONE", size |-> sz, data |-> d]

\* ----------------------------------------------------------------- attach
AttachErrorShortBuffer(lic, pcBuffer, nBufferSize) ==
  FirstError(<< ChkLicense(lic),
                E(pcBuffer.k = "null", "MDZ_ERROR_DATA"),
                E(nBufferSize < MinBufferSize - 1, "MDZ_ERROR_CAPACITY") >>)

AttachError(lic, pcBuffer, nBufferSize) ==
  FirstError(<< ChkLicense(lic),
                E(pcBuffer.k = "null", "MDZ_ERROR_DATA"),
                E(nBufferSize < MinBufferSize, "MDZ_ERROR_CAPACITY") >>)

\* Capacity left for Data in a buffer of nBufferSize bytes
AttachCapacity(nBufferSize) == nBufferSize - MinBufferSize

\* ----------------------------------------------------------------- insert
InsertErrorNoBigCount(lic, s, nLeftPos, pcItems, nCount) ==
  FirstError(<< ChkLicense(lic), ChkData(s), ChkCapacityNonZero(s), ChkTerminator(s),
                ChkItems(pcItems), ChkZeroCount(nCount),
                E(nLeftPos > s.size, "MDZ_ERROR_BIG_LEFT"),
                E(OverlapsArea(pcItems, nCount, s.size + nCount), "MDZ_ERROR_OVERLAP") >>)

InsertErrorOverlapFirst(lic, s, nLeftPos, pcItems, nCount) ==
  FirstError(<< ChkLicense(lic), ChkData(s), ChkCapacityNonZero(s), ChkTerminator(s),
                ChkItems(pcItems), ChkZeroCount(nCount),
                E(nLeftPos > s.size, "MDZ_ERROR_BIG_LEFT"),
                E(OverlapsArea(pcItems, nCount, s.size + nCount), "MDZ_ERROR_OVERLAP"),
                E(s.size + nCount > s.capacity, "MDZ_ERROR_BIG_COUNT") >>)

InsertError(lic, s, nLeftPos, pcItems, nCount) ==
  FirstError(<< ChkLicense(lic), ChkData(s), ChkCapacityNonZero(s), ChkTerminator(s),
                ChkItems(pcItems), ChkZeroCount(nCount),
                E(nLeftPos > s.size, "MDZ_ERROR_BIG_LEFT"),
                E(s.size + nCount > s.capacity, "MDZ_ERROR_BIG_COUNT"),
                E(OverlapsArea(pcItems, nCount, s.size + nCount), "MDZ_ERROR_OVERLAP") >>)

\* [nLeftPos, sz) moves right by Len(items), items fill the gap, Data[sz + n] = 0
InsertData(d, sz, nLeftPos, items) ==
  LET n == Len(items) IN
  [i \in DOMAIN d |->
     IF i < nLeftPos THEN d[i]
     ELSE IF i < nLeftPos + n THEN items[i - nLeftPos + 1]
     ELSE IF i < sz + n THEN d[i - n]
     ELSE IF i = sz + n THEN 0
     ELSE d[i]]

insert(lic, s, nLeftPos, pcItems, nCount) ==
  LET e == InsertError(lic, s, nLeftPos, pcItems, nCount) IN
  IF e # "MDZ_ERROR_NONE" THEN Failed(s, e, e)
  ELSE Written(s.size + nCount,
               InsertData(s.data, s.size, nLeftPos, Deref(pcItems, nCount, s.data)))

\* ----------------------------------------------------------- single-byte scans
FindSingleError(lic, s, nLeftPos, nRightPos) ==
  FirstError(<< ChkLicense(lic), ChkData(s), ChkCapacity(s), ChkBigSize(s), ChkTerminator(s),
                ChkBigRight(s, nRightPos), ChkBigLeft(nLeftPos, nRightPos) >>)

\* first / last position of [l, r] whose byte is (is not) one of the set B
FirstIn(d, l, r, B) ==
  LET hit == {p \in l..r : d[p] \in B} IN IF hit = {} THEN SIZE_MAX ELSE Min(hit)
LastIn(d, l, r, B) ==
  LET hit == {p \in l..r : d[p] \in B} IN IF hit = {} THEN SIZE_MAX ELSE Max(hit)
FirstNotIn(d, l, r, B) ==
  LET hit == {p \in l..r : d[p] \notin B} IN IF hit = {} THEN SIZE_MAX ELSE Min(hit)
LastNotIn(d, l, r, B) ==
  LET hit == {p \in l..r : d[p] \notin B} IN IF hit = {} THEN SIZE_MAX ELSE Max(hit)

findSingle(lic, s, nLeftPos, nRightPos, cItem) ==
  LET e == FindSingleError(lic, s, nLeftPos, nRightPos) IN
  IF e # "MDZ_ERROR_NONE" THEN Failed(s, e, SIZE_MAX)
  ELSE ReadOnly(s, FirstIn(s.data, nLeftPos, nRightPos, {cItem}))

rfindSingle(lic, s, nLeftPos, nRightPos, cItem) ==
  LET e == FindSingleError(lic, s, nLeftPos, nRightPos) IN
  IF e # "MDZ_ERROR_NONE" THEN Failed(s, e, SIZE_MAX)
  ELSE ReadOnly(s, LastIn(s.data, nLeftPos, nRightPos, {cItem}))

\* ------------------------------------------------- Boyer-Moore-Horspool search
MatchAt(d, p, items) == \A i \in 1..Len(items) : d[p + i - 1] = items[i]

\* bad-byte shift: distance from the last occurrence of c among the first
\* Len - 1 pattern bytes to the pattern's end, or the pattern length
HorspoolShift(items, c) ==
  LET m == Len(items)
      occ == {i \in 1..(m - 1) : items[i] = c}
  IN IF occ = {} THEN m ELSE m - Max(occ)

\* the mirrored table of the backward scan
HorspoolShiftBack(items, c) ==
  LET m == Len(items)
      occ == {i \in 2..m : items[i] = c}
  IN IF occ = {} THEN m ELSE Min(occ) - 1

RECURSIVE HorspoolScan(_, _, _, _)
HorspoolScan(d, pos, r, items) ==
  LET m == Len(items) IN
  IF pos + m - 1 > r THEN SIZE_MAX
  ELSE IF MatchAt(d, pos, items) THEN pos
  ELSE HorspoolScan(d, pos + HorspoolShift(items, d[pos + m - 1]), r, items)

RECURSIVE HorspoolScanBack(_, _, _, _)
HorspoolScanBack(d, l, pos, items) ==
  IF pos < l THEN SIZE_MAX
  ELSE IF MatchAt(d, pos, items) THEN pos
  ELSE HorspoolScanBack(d, l, pos - HorspoolShiftBack(items, d[pos]), items)

FindError(lic, s, nLeftPos, nRightPos, pcItems, nCount) ==
  FirstError(<< ChkLicense(lic), ChkData(s), ChkCapacity(s), ChkBigSize(s), ChkTerminator(s),
                ChkItems(pcItems), ChkZeroCount(nCount),
                ChkBigRight(s, nRightPos), ChkBigLeft(nLeftPos, nRightPos),
                ChkBigCount(nLeftPos, nRightPos, nCount) >>)

findShortWindow(lic, s, nLeftPos, nRightPos, pcItems, nCount) ==
  LET e == FindError(lic, s, nLeftPos, nRightPos, pcItems, nCount) IN
  IF e # "MDZ_ERROR_NONE" THEN Failed(s, e, SIZE_MAX)
  ELSE ReadOnly(s, HorspoolScan(s.data, nLeftPos, nRightPos - 1, Deref(pcItems, nCount, s.data)))

find(lic, s, nLeftPos, nRightPos, pcItems, nCount) ==
  LET e == FindError(lic, s, nLeftPos, nRightPos, pcItems, nCount) IN
  IF e # "MDZ_ERROR_NONE" THEN Failed(s, e, SIZE_MAX)
  ELSE ReadOnly(s, HorspoolScan(s.data, nLeftPos, nRightPos, Deref(pcItems, nCount, s.data)))

rfind(lic, s, nLeftPos, nRightPos, pcItems, nCount) ==
  LET e == FindError(lic, s, nLeftPos, nRightPos, pcItems, nCount) IN
  IF e # "MDZ_ERROR_NONE" THEN Failed(s, e, SIZE_MAX)
  ELSE ReadOnly(s, HorspoolScanBack(s.data, nLeftPos, nRightPos - nCount + 1,
                                    Deref(pcItems, nCount, s.data)))

\* ---------------------------------------------------------- byte-set scans
OfError(lic, s, nLeftPos, nRightPos, pcItems, nCount) ==
  FirstError(<< ChkLicense(lic), ChkData(s), ChkCapacity(s), ChkBigSize(s), ChkTerminator(s),
                ChkItems(pcItems), ChkZeroCount(nCount),
                ChkBigRight(s, nRightPos), ChkBigLeft(nLeftPos, nRightPos) >>)

\* the 256-bucket presence table of an items array
ByteSet(items) == {items[i] : i \in 1..Len(items)}

firstOf(lic, s, nLeftPos, nRightPos, pcItems, nCount) ==
  LET e == OfError(lic, s, nLeftPos, nRightPos, pcItems, nCount) IN
  IF e # "MDZ_ERROR_NONE" THEN Failed(s, e, SIZE_MAX)
  ELSE ReadOnly(s, FirstIn(s.data, nLeftPos, nRightPos, ByteSet(Deref(pcItems, nCount, s.data))))

firstNotOf(lic, s, nLeftPos, nRightPos, pcItems, nCount) ==
  LET e == OfError(lic, s, nLeftPos, nRightPos, pcItems, nCount) IN
  IF e # "MDZ_ERROR_NONE" THEN Failed(s, e, SIZE_MAX)
  ELSE ReadOnly(s, FirstNotIn(s.data, nLeftPos, nRightPos, ByteSet(Deref(pcItems, nCount, s.data))))

lastOf(lic, s, nLeftPos, nRightPos, pcItems, nCount) ==
  LET e == OfError(lic, s, nLeftPos, nRightPos, pcItems, nCount) IN
  IF e # "MDZ_ERROR_NONE" THEN Failed(s, e, SIZE_MAX)
  ELSE ReadOnly(s, LastIn(s.data, nLeftPos, nRightPos, ByteSet(Deref(pcItems, nCount, s.data))))

lastNotOf(lic, s, nLeftPos, nRightPos, pcItems, nCount) ==
  LET e == OfError(lic, s, nLeftPos, nRightPos, pcItems, nCount) IN
  IF e # "MDZ_ERROR_NONE" THEN Failed(s, e, SIZE_MAX)
  ELSE ReadOnly(s, LastNotIn(s.data, nLeftPos, nRightPos, ByteSet(Deref(pcItems, nCount, s.data))))

\* ------------------------------------------------------------- removeFrom
RemoveFromErrorShortTail(lic, s, nLeftPos, nCount) ==
  FirstError(<< ChkLicense(lic), ChkData(s), ChkCapacity(s), ChkBigSize(s), ChkTerminator(s),
                ChkZeroSize(s), ChkZeroCount(nCount),
                E(nLeftPos >= s.size, "MDZ_ERROR_BIG_LEFT"),
                E(nCount >= s.size - nLeftPos, "MDZ_ERROR_BIG_COUNT") >>)

RemoveFromError(lic, s, nLeftPos, nCount) ==
  FirstError(<< ChkLicense(lic), ChkData(s), ChkCapacity(s), ChkBigSize(s), ChkTerminator(s),
                ChkZeroSize(s), ChkZeroCount(nCount),
                E(nLeftPos >= s.size, "MDZ_ERROR_BIG_LEFT"),
                E(nCount > s.size - nLeftPos, "MDZ_ERROR_BIG_COUNT") >>)

\* bytes after the removed range move left by n, Data[sz - n] = 0
RemoveData(d, sz, nLeftPos, n) ==
  [i \in DOMAIN d |->
     IF i < nLeftPos THEN d[i]
     ELSE IF i < sz - n THEN d[i + n]
     ELSE IF i = sz - n THEN 0
     ELSE d[i]]

removeFrom(lic, s, nLeftPos, nCount) ==
  LET e == RemoveFromError(lic, s, nLeftPos, nCount) IN
  IF e # "MDZ_ERROR_NONE" THEN Failed(s, e, e)
  ELSE Written(s.size - nCount, RemoveData(s.data, s.size, nLeftPos, nCount))

\* ----------------------------------------------------------------- remove
RemoveError(lic, s, nLeftPos, nRightPos, pcItems, nCount) ==
  FirstError(<< ChkLicense(lic), ChkData(s), ChkCapacity(s), ChkBigSize(s), ChkTerminator(s),
                ChkZeroSize(s), ChkItems(pcItems), ChkZeroCount(nCount),
                ChkBigRight(s, nRightPos), ChkBigLeft(nLeftPos, nRightPos),
                ChkBigCount(nLeftPos, nRightPos, nCount) >>)

\* locate an occurrence in the window, remove it, go on in the window that is left
RECURSIVE RemoveAll(_, _, _, _, _, _)
RemoveAll(d, sz, l, r, items, bFromLeft) ==
  LET m == Len(items)
      p == IF r - l + 1 < m THEN SIZE_MAX
           ELSE IF bFromLeft THEN HorspoolScan(d, l, r, items)
           ELSE HorspoolScanBack(d, l, r - m + 1, items)
  IN IF p = SIZE_MAX THEN [size |-> sz, data |-> d]
     ELSE IF bFromLeft
          THEN RemoveAll(RemoveData(d, sz, p, m), sz - m, p, r - m, items, bFromLeft)
          ELSE RemoveAll(RemoveData(d, sz, p, m), sz - m, l, p - 1, items, bFromLeft)

remove(lic, s, nLeftPos, nRightPos, pcItems, nCount, bFromLeft) ==
  LET e == RemoveError(lic, s, nLeftPos, nRightPos, pcItems, nCount) IN
  IF e # "MDZ_ERROR_NONE" THEN Failed(s, e, e)
  ELSE LET x == RemoveAll(s.data, s.size, nLeftPos, nRightPos,
                          Deref(pcItems, nCount, s.data), bFromLeft)
       IN Written(x.size, x.data)

\* ------------------------------------------------------------------- trim
TrimError(lic, s, nLeftPos, nRightPos, pcItems, nCount) ==
  FirstError(<< ChkLicense(lic), ChkData(s), ChkCapacity(s), ChkBigSize(s), ChkTerminator(s),
                ChkZeroSize(s), ChkItems(pcItems), ChkZeroCount(nCount),
                ChkBigRight(s, nRightPos), ChkBigLeft(nLeftPos, nRightPos) >>)

\* length of the run of set members walking inward from l, and from r
LeftRun(d, l, r, B) ==
  LET q == FirstNotIn(d, l, r, B) IN IF q = SIZE_MAX THEN r - l + 1 ELSE q - l
RightRun(d, l, r, B) ==
  LET q == LastNotIn(d, l, r, B) IN IF q = SIZE_MAX THEN r - l + 1 ELSE r - q

RemoveRun(x, at, n) ==
  IF n = 0 THEN x ELSE [size |-> x.size - n, data |-> RemoveData(x.data, x.size, at, n)]

trimLeft(lic, s, nLeftPos, nRightPos, pcItems, nCount) ==
  LET e == TrimError(lic, s, nLeftPos, nRightPos, pcItems, nCount) IN
  IF e # "MDZ_ERROR_NONE" THEN Failed(s, e, e)
  ELSE LET B == ByteSet(Deref(pcItems, nCount, s.data))
           x == RemoveRun([size |-> s.size, data |-> s.data], nLeftPos,
                          LeftRun(s.data, nLeftPos, nRightPos, B))
       IN Written(x.size, x.data)

trimRight(lic, s, nLeftPos, nRightPos, pcItems, nCount) ==
  LET e == TrimError(lic, s, nLeftPos, nRightPos, pcItems, nCount) IN
  IF e # "MDZ_ERROR_NONE" THEN Failed(s, e, e)
  ELSE LET B == ByteSet(Deref(pcItems, nCount, s.data))
           n == RightRun(s.data, nLeftPos, nRightPos, B)
           x == RemoveRun([size |-> s.size, data |-> s.data], nRightPos - n + 1, n)
       IN Written(x.size, x.data)

\* the left run first, the right run then taken out at its old position
trimLeftRunFirst(lic, s, nLeftPos, nRightPos, pcItems, nCount) ==
  LET e == TrimError(lic, s, nLeftPos, nRightPos, pcItems, nCount) IN
  IF e # "MDZ_ERROR_NONE" THEN Failed(s, e, e)
  ELSE LET B == ByteSet(Deref(pcItems, nCount, s.data))
           nl == LeftRun(s.data, nLeftPos, nRightPos, B)
           nr == IF nl = nRightPos - nLeftPos + 1 THEN 0
                 ELSE RightRun(s.data, nLeftPos, nRightPos, B)
           x == RemoveRun([size |-> s.size, data |-> s.data], nLeftPos, nl)
           y == RemoveRun(x, nRightPos - nr + 1, nr)
       IN Written(y.size, y.data)

\* the right run goes first, so the left run's positions are still the original ones
trim(lic, s, nLeftPos, nRightPos, pcItems, nCount) ==
  LET e == TrimError(lic, s, nLeftPos, nRightPos, pcItems, nCount) IN
  IF e # "MDZ_ERROR_NONE" THEN Failed(s, e, e)
  ELSE LET B == ByteSet(Deref(pcItems, nCount, s.data))
           nl == LeftRun(s.data, nLeftPos, nRightPos, B)
           nr == IF nl = nRightPos - nLeftPos + 1 THEN 0
                 ELSE RightRun(s.data, nLeftPos, nRightPos, B)
           x == RemoveRun([size |-> s.size, data |-> s.data], nRightPos - nr + 1, nr)
           y == RemoveRun(x, nLeftPos, nl)
       IN Written(y.size, y.data)

\* ---------------------------------------------------------------- reverse
ReverseError(lic, s, nLeftPos, nRightPos) ==
  FirstError(<< ChkLicense(lic), ChkData(s), ChkCapacity(s), ChkBigSize(s), ChkTerminator(s),
                ChkBigRight(s, nRightPos),
                E(nLeftPos >= nRightPos, "MDZ_ERROR_BIG_LEFT") >>)

\* two pointers walking inward, swapping
RECURSIVE SwapLoop(_, _, _)
SwapLoop(d, i, j) ==
  IF i >= j THEN d ELSE SwapLoop([d EXCEPT ![i] = d[j], ![j] = d[i]], i + 1, j - 1)

reverseStopsShort(lic, s, nLeftPos, nRightPos) ==
  LET e == ReverseError(lic, s, nLeftPos, nRightPos) IN
  IF e # "MDZ_ERROR_NONE" THEN Failed(s, e, e)
  ELSE Written(s.size, SwapLoop(s.data, nLeftPos + 1, nRightPos))

reverse(lic, s, nLeftPos, nRightPos) ==
  LET e == ReverseError(lic, s, nLeftPos, nRightPos) IN
  IF e # "MDZ_ERROR_NONE" THEN Failed(s, e, e)
  ELSE Written(s.size, SwapLoop(s.data, nLeftPos, nRightPos))

\* ---------------------------------------------------------------- compare
CompareError(lic, s, nLeftPos, pcItems, nCount) ==
  FirstError(<< ChkLicense(lic), ChkData(s), ChkCapacity(s), ChkBigSize(s), ChkTerminator(s),
                ChkItems(pcItems), ChkZeroCount(nCount),
                E(nLeftPos >= s.size, "MDZ_ERROR_BIG_LEFT"),
                E(nCount > s.size - nLeftPos, "MDZ_ERROR_BIG_COUNT") >>)

compareAlwaysPartial(lic, s, nLeftPos, pcItems, nCount, bPartialCompare) ==
  LET e == CompareError(lic, s, nLeftPos, pcItems, nCount) IN
  IF e # "MDZ_ERROR_NONE" THEN Failed(s, e, "MDZ_COMPARE_NONEQUAL")
  ELSE ReadOnly(s, IF MatchAt(s.data, nLeftPos, Deref(pcItems, nCount, s.data))
                   THEN "MDZ_COMPARE_EQUAL" ELSE "MDZ_COMPARE_NONEQUAL")

compare(lic, s, nLeftPos, pcItems, nCount, bPartialCompare) ==
  LET e == CompareError(lic, s, nLeftPos, pcItems, nCount) IN
  IF e # "MDZ_ERROR_NONE" THEN Failed(s, e, "MDZ_COMPARE_NONEQUAL")
  ELSE ReadOnly(s, IF /\ MatchAt(s.data, nLeftPos, Deref(pcItems, nCount, s.data))
                      /\ (bPartialCompare \/ nLeftPos + nCount = s.size)
                   THEN "MDZ_COMPARE_EQUAL" ELSE "MDZ_COMPARE_NONEQUAL")

\* ------------------------------------------------------------------ count
\* repeated search; after a match the window moves on by one byte (overlapped
\* occurrences count) or past the match
RECURSIVE CountScan(_, _, _, _, _, _)
CountScan(d, l, r, items, bAllowOverlapped, bFromLeft) ==
  LET m == Len(items)
      p == IF r - l + 1 < m THEN SIZE_MAX
           ELSE IF bFromLeft THEN HorspoolScan(d, l, r, items)
           ELSE HorspoolScanBack(d, l, r - m + 1, items)
  IN IF p = SIZE_MAX THEN 0
     ELSE IF bFromLeft
          THEN 1 + CountScan(d, IF bAllowOverlapped THEN p + 1 ELSE p + m, r,
                             items, bAllowOverlapped, bFromLeft)
          ELSE 1 + CountScan(d, l, IF bAllowOverlapped THEN p + m - 2 ELSE p - 1,
                             items, bAllowOverlapped, bFromLeft)

CountError(lic, s, nLeftPos, nRightPos, pcItems, nCount) ==
  FirstError(<< ChkLicense(lic), ChkData(s), ChkCapacity(s), ChkBigSize(s), ChkTerminator(s),
                ChkItems(pcItems), ChkZeroCount(nCount),
                ChkBigRight(s, nRightPos), ChkBigLeft(nLeftPos, nRightPos),
                ChkBigCount(nLeftPos, nRightPos, nCount) >>)

countNeverOverlapped(lic, s, nLeftPos, nRightPos, pcItems, nCount, bAllowOverlapped, bFromLeft) ==
  LET e == CountError(lic, s, nLeftPos, nRightPos, pcItems, nCount) IN
  IF e # "MDZ_ERROR_NONE" THEN Failed(s, e, SIZE_MAX)
  ELSE ReadOnly(s, CountScan(s.data, nLeftPos, nRightPos, Deref(pcItems, nCount, s.data),
                             FALSE, bFromLeft))

countOverlappedFromRight(lic, s, nLeftPos, nRightPos, pcItems, nCount, bAllowOverlapped, bFromLeft) ==
  LET e == CountError(lic, s, nLeftPos, nRightPos, pcItems, nCount) IN
  IF e # "MDZ_ERROR_NONE" THEN Failed(s, e, SIZE_MAX)
  ELSE ReadOnly(s, CountScan(s.data, nLeftPos, nRightPos, Deref(pcItems, nCount, s.data),
                             bAllowOverlapped \/ ~bFromLeft, bFromLeft))

count(lic, s, nLeftPos, nRightPos, pcItems, nCount, bAllowOverlapped, bFromLeft) ==
  LET e == CountError(lic, s, nLeftPos, nRightPos, pcItems, nCount) IN
  IF e # "MDZ_ERROR_NONE" THEN Failed(s, e, SIZE_MAX)
  ELSE ReadOnly(s, CountScan(s.data, nLeftPos, nRightPos, Deref(pcItems, nCount, s.data),
                             bAllowOverlapped, bFromLeft))

\* ---------------------------------------------------------------- replace
\* the occurrences a scan of the window finds, each search starting past (before)
\* the previous match; in ascending order of position
RECURSIVE MatchPositions(_, _, _, _, _)
MatchPositions(d, l, r, items, bFromLeft) ==
  LET m == Len(items)
      p == IF r - l + 1 < m THEN SIZE_MAX
           ELSE IF bFromLeft THEN HorspoolScan(d, l, r, items)
           ELSE HorspoolScanBack(d, l, r - m + 1, items)
  IN IF p = SIZE_MAX THEN << >>
     ELSE IF bFromLeft THEN <<p>> \o MatchPositions(d, p + m, r, items, bFromLeft)
     ELSE MatchPositions(d, l, p - 1, items, bFromLeft) \o <<p>>

\* Size after every occurrence of the window is replaced
ReplacedSize(s, nLeftPos, nRightPos, pcItemsBefore, nCountBefore, nCountAfter, bFromLeft) ==
  s.size + Len(MatchPositions(s.data, nLeftPos, nRightPos,
                              Deref(pcItemsBefore, nCountBefore, s.data), bFromLeft))
           * (nCountAfter - nCountBefore)

ReplaceErrorNoEquality(lic, s, nLeftPos, nRightPos, pcItemsBefore, nCountBefore, pcItemsAfter, nCountAfter, bFromLeft, enReplacementType) ==
  LET e == FirstError(<< ChkLicense(lic), ChkData(s), ChkCapacityNonZero(s), ChkBigSize(s),
                         ChkZeroSize(s), ChkTerminator(s),
                         ChkItems(pcItemsBefore), ChkZeroCount(nCountBefore),
                         ChkBigRight(s, nRightPos), ChkBigLeft(nLeftPos, nRightPos),
                         ChkBigCount(nLeftPos, nRightPos, nCountBefore),
                         E(\/ OverlapsArea(pcItemsBefore, nCountBefore, s.size)
                           \/ OverlapsArea(pcItemsAfter, nCountAfter, s.size),
                           "MDZ_ERROR_OVERLAP") >>)
  IN IF e # "MDZ_ERROR_NONE" THEN e
     ELSE LET n == ReplacedSize(s, nLeftPos, nRightPos, pcItemsBefore, nCountBefore,
                                nCountAfter, bFromLeft)
          IN FirstError(<< E(n >= s.capacity, "MDZ_ERROR_BIG_REPLACE"),
                           E(\/ OverlapsArea(pcItemsBefore, nCountBefore, n)
                             \/ OverlapsArea(pcItemsAfter, nCountAfter, n),
                             "MDZ_ERROR_OVERLAP_REPLACE") >>)

ReplaceError(lic, s, nLeftPos, nRightPos, pcItemsBefore, nCountBefore, pcItemsAfter, nCountAfter, bFromLeft, enReplacementType) ==
  LET e == FirstError(<< ChkLicense(lic), ChkData(s), ChkCapacityNonZero(s), ChkBigSize(s),
                         ChkZeroSize(s), ChkTerminator(s),
                         ChkItems(pcItemsBefore), ChkZeroCount(nCountBefore),
                         ChkBigRight(s, nRightPos), ChkBigLeft(nLeftPos, nRightPos),
                         ChkBigCount(nLeftPos, nRightPos, nCountBefore),
                         E(\/ OverlapsArea(pcItemsBefore, nCountBefore, s.size)
                           \/ OverlapsArea(pcItemsAfter, nCountAfter, s.size),
                           "MDZ_ERROR_OVERLAP") >>)
  IN IF e # "MDZ_ERROR_NONE" THEN e
     ELSE LET n == ReplacedSize(s, nLeftPos, nRightPos, pcItemsBefore, nCountBefore,
                                nCountAfter, bFromLeft)
          IN FirstError(<< E(n > s.capacity, "MDZ_ERROR_BIG_REPLACE"),
                           E(\/ OverlapsArea(pcItemsBefore, nCountBefore, n)
                             \/ OverlapsArea(pcItemsAfter, nCountAfter, n),
                             "MDZ_ERROR_OVERLAP_REPLACE") >>)

\* memmove of n bytes from src to dst; memcpy of an array to dst
MoveBytes(d, src, dst, n) ==
  [i \in DOMAIN d |-> IF dst <= i /\ i < dst + n THEN d[i - dst + src] ELSE d[i]]
WriteBytes(d, dst, bytes) ==
  [i \in DOMAIN d |-> IF dst <= i /\ i < dst + Len(bytes) THEN bytes[i - dst + 1] ELSE d[i]]

\* first byte after the gap that follows match j: the next match, or past the terminator
GapEnd(ps, j, sz) == IF j = Len(ps) THEN sz + 1 ELSE ps[j + 1]

\* growing: from the last match back to the first, the gap after match j moves
\* right by j * delta, then the replacement is written in front of it
RECURSIVE GrowLoop(_, _, _, _, _, _)
GrowLoop(d, ps, j, sz, nCountBefore, after) ==
  IF j = 0 THEN d
  ELSE LET delta == Len(after) - nCountBefore
           gap == ps[j] + nCountBefore
           moved == MoveBytes(d, gap, gap + j * delta, GapEnd(ps, j, sz) - gap)
       IN GrowLoop(WriteBytes(moved, ps[j] + (j - 1) * delta, after),
                   ps, j - 1, sz, nCountBefore, after)

\* not growing: from the first match on, the replacement is written at its final
\* place, then the gap after match j moves left by j * (-delta)
RECURSIVE ShrinkLoop(_, _, _, _, _, _)
ShrinkLoop(d, ps, j, sz, nCountBefore, after) ==
  IF j > Len(ps) THEN d
  ELSE LET delta == Len(after) - nCountBefore
           gap == ps[j] + nCountBefore
           written == WriteBytes(d, ps[j] + (j - 1) * delta, after)
       IN ShrinkLoop(MoveBytes(written, gap, gap + j * delta, GapEnd(ps, j, sz) - gap),
                     ps, j + 1, sz, nCountBefore, after)

ReplaceData(d, sz, ps, nCountBefore, after) ==
  IF Len(after) > nCountBefore THEN GrowLoop(d, ps, Len(ps), sz, nCountBefore, after)
  ELSE ShrinkLoop(d, ps, 1, sz, nCountBefore, after)

replaceWriteFirst(lic, s, nLeftPos, nRightPos, pcItemsBefore, nCountBefore, pcItemsAfter, nCountAfter, bFromLeft, enReplacementType) ==
  LET e == ReplaceError(lic, s, nLeftPos, nRightPos, pcItemsBefore, nCountBefore,
                        pcItemsAfter, nCountAfter, bFromLeft, enReplacementType)
      before == Deref(pcItemsBefore, nCountBefore, s.data)
      after == IF nCountAfter = 0 THEN << >>
               ELSE Deref(pcItemsAfter, nCountAfter, s.data)
      ps == MatchPositions(s.data, nLeftPos, nRightPos, before, bFromLeft)
  IN IF e = "MDZ_ERROR_BIG_REPLACE"
     THEN [err |-> e, ret |-> e, size |-> s.size, data |-> WriteBytes(s.data, ps[1], after)]
     ELSE IF e # "MDZ_ERROR_NONE" THEN Failed(s, e, e)
     ELSE Written(s.size + Len(ps) * (nCountAfter - nCountBefore),
                  ReplaceData(s.data, s.size, ps, nCountBefore, after))

replaceFrontToBack(lic, s, nLeftPos, nRightPos, pcItemsBefore, nCountBefore, pcItemsAfter, nCountAfter, bFromLeft, enReplacementType) ==
  LET e == ReplaceError(lic, s, nLeftPos, nRightPos, pcItemsBefore, nCountBefore,
                        pcItemsAfter, nCountAfter, bFromLeft, enReplacementType)
  IN IF e # "MDZ_ERROR_NONE" THEN Failed(s, e, e)
     ELSE LET before == Deref(pcItemsBefore, nCountBefore, s.data)
              after == IF nCountAfter = 0 THEN << >>
                       ELSE Deref(pcItemsAfter, nCountAfter, s.data)
              ps == MatchPositions(s.data, nLeftPos, nRightPos, before, bFromLeft)
          IN Written(s.size + Len(ps) * (nCountAfter - nCountBefore),
                     ShrinkLoop(s.data, ps, 1, s.size, nCountBefore, after))

replace(lic, s, nLeftPos, nRightPos, pcItemsBefore, nCountBefore, pcItemsAfter, nCountAfter, bFromLeft, enReplacementType) ==
  LET e == ReplaceError(lic, s, nLeftPos, nRightPos, pcItemsBefore, nCountBefore,
                        pcItemsAfter, nCountAfter, bFromLeft, enReplacementType)
  IN IF e # "MDZ_ERROR_NONE" THEN Failed(s, e, e)
     ELSE LET before == Deref(pcItemsBefore, nCountBefore, s.data)
              after == IF nCountAfter = 0 THEN << >>
                       ELSE Deref(pcItemsAfter, nCountAfter, s.data)
              ps == MatchPositions(s.data, nLeftPos, nRightPos, before, bFromLeft)
          IN Written(s.size + Len(ps) * (nCountAfter - nCountBefore),
                     ReplaceData(s.data, s.size, ps, nCountBefore, after))

\* ---------------------------------------------------------------- inputs
\* positions up to one past Size: every larger one fails the same checks
PosIn == 0..(size + 1)
\* right ends of a window up to Size, the first one that is outside the string
WinPos == 0..size

\* raw buffers a caller may hand over: nBufferSize bytes, the first 4 reserved,
\* the rest filled with whatever byte the memory held
RawLens == {0, MinBufferSize - 1} \cup (MinBufferSize..(MinBufferSize + MaxCap))
RawData(n) ==
  IF n < MinBufferSize THEN {[i \in {0} |-> 0]}
  ELSE {[i \in 0..(n - MinBufferSize) |-> b] : b \in Byte}

\* replacements: NULL with no bytes, or an external array that is one byte long
\* or longer than any items before it (the byte values play no part in any check)
AfterItems == {<<NullPtr, 0>>} \cup
              {<<ExtPtr([i \in 1..k |-> MaxByte]), k>> : k \in {1, MaxCount + 1}}

\* before / after pairs of replace: external arrays, ...
ExtPairs == ExtItems \X AfterItems
\* ... and pairs one of whose arrays lies in the string's own buffer
OwnPairs(c) ==
  ({<<IntPtr(o), 1>> : o \in 0..c} \X {a \in AfterItems : a[2] > 0}) \cup
  ({<<ExtPtr(<<MaxByte>>), 1>>} \X OwnItems(c))

\* patterns of the substring-search runs
FindItems == {<<ExtPtr(s), Len(s)>> : s \in ExtSeqs(MaxFindCount)}

\* values of enum mdz_ansi_replace_type: the one the header names, and any other
ReplaceTypes == {"MDZ_ANSI_REPLACE_DUAL", "other"}

\* pairs passed with another replacement type: one byte to find, any replacement
BytePairs == {<<ExtPtr(<<b>>), 1>> : b \in Byte} \X AfterItems


\* pairs of the rewrite runs: any items before of up to MaxCount bytes, and
\* replacements of 0 .. MaxCount + 1 bytes whose bytes differ from one another
RewriteAfter ==
  {<<NullPtr, 0>>} \cup
  {<<ExtPtr([i \in 1..k |-> i % (MaxByte + 1)]), k>> : k \in 1..(MaxCount + 1)}
RewritePairs == {<<ExtPtr(b), Len(b)>> : b \in ExtSeqs(MaxCount)} \X RewriteAfter
\* ---------------------------------------------------------------- actions
\* what is remembered of a successful insert: armed by the insert, done when the
\* next call is removeFrom at the same position with the same count
Remember(c, x) ==
  IF c.op = "insert" /\ x.err = "MDZ_ERROR_NONE"
  THEN [st |-> "armed", nLeftPos |-> c.nLeftPos, nCount |-> c.nCount, before |-> Str]
  ELSE IF /\ c.op = "removeFrom" /\ inserted.st = "armed"
          /\ c.nLeftPos = inserted.nLeftPos /\ c.nCount = inserted.nCount
  THEN [inserted EXCEPT !.st = "done"]
  ELSE NoInsert

\* a call of a function on the attached string: c is the call, x what it gives back
Do(c, result) ==
  \E x \in {result} :
    /\ pc' = "returned"
    /\ pre' = Str
    /\ call' = [c EXCEPT !.err = x.err, !.ret = x.ret]
    /\ size' = x.size
    /\ data' = x.data
    /\ inserted' = Remember(c, x)
    /\ UNCHANGED <<license, attached, capacity>>

\* the caller has read the result and is about to make its next call
Return ==
  /\ pc = "returned"
  /\ pc' = "idle"
  /\ call' = NoCall
  /\ pre' = NoStr
  /\ inserted' = NoInsert
  /\ UNCHANGED <<license, attached, size, capacity, data>>

\* the same, by a caller that goes on to undo its insert
ReturnAfterInsert ==
  /\ pc = "returned"
  /\ call.op = "insert"
  /\ pc' = "idle"
  /\ call' = NoCall
  /\ pre' = NoStr
  /\ UNCHANGED <<license, attached, size, capacity, data, inserted>>

mdz_ansi_16_attach ==
  /\ pc = "idle"
  /\ \E null \in BOOLEAN, n \in RawLens :
     \E raw \in IF null THEN {[i \in {0} |-> 0]} ELSE RawData(n) :
    LET p == IF null THEN NullPtr ELSE ExtPtr(<< >>)
        e == AttachError(license, p, n)
    IN /\ pc' = "returned"
       /\ pre' = Str
       /\ call' = [NoCall EXCEPT !.op = "attach", !.pcBuffer = p, !.nBufferSize = n,
                                 !.err = e,
                                 !.ret = IF e = "MDZ_ERROR_NONE" THEN "handle" ELSE "NULL"]
       /\ IF e = "MDZ_ERROR_NONE"
          THEN /\ attached' = TRUE
               /\ capacity' = AttachCapacity(n)
               /\ size' = 0
               /\ data' = [raw EXCEPT ![0] = 0]
          ELSE UNCHANGED <<attached, size, capacity, data>>
       /\ inserted' = NoInsert
       /\ UNCHANGED license

mdz_ansi_16_insert ==
  /\ pc = "idle"
  /\ \E l \in PosIn, pn \in ExtItems \cup OwnItems(capacity) :
    Do([NoCall EXCEPT !.op = "insert", !.nLeftPos = l, !.pcItems = pn[1], !.nCount = pn[2]],
       insert(license, Str, l, pn[1], pn[2]))

mdz_ansi_16_findSingle ==
  /\ pc = "idle"
  /\ \E l \in PosIn, r \in WinPos, c \in Byte :
    Do([NoCall EXCEPT !.op = "findSingle", !.nLeftPos = l, !.nRightPos = r, !.cItem = c],
       findSingle(license, Str, l, r, c))

mdz_ansi_16_rfindSingle ==
  /\ pc = "idle"
  /\ \E l \in PosIn, r \in WinPos, c \in Byte :
    Do([NoCall EXCEPT !.op = "rfindSingle", !.nLeftPos = l, !.nRightPos = r, !.cItem = c],
       rfindSingle(license, Str, l, r, c))

mdz_ansi_16_find(Items) ==
  /\ pc = "idle"
  /\ \E l \in PosIn, r \in WinPos, pn \in Items :
    Do([NoCall EXCEPT !.op = "find", !.nLeftPos = l, !.nRightPos = r,
                      !.pcItems = pn[1], !.nCount = pn[2]],
       find(license, Str, l, r, pn[1], pn[2]))

mdz_ansi_16_rfind ==
  /\ pc = "idle"
  /\ \E l \in PosIn, r \in WinPos, pn \in ExtItems :
    Do([NoCall EXCEPT !.op = "rfind", !.nLeftPos = l, !.nRightPos = r,
                      !.pcItems = pn[1], !.nCount = pn[2]],
       rfind(license, Str, l, r, pn[1], pn[2]))

mdz_ansi_16_firstOf ==
  /\ pc = "idle"
  /\ \E l \in PosIn, r \in WinPos, pn \in SetItems :
    Do([NoCall EXCEPT !.op = "firstOf", !.nLeftPos = l, !.nRightPos = r,
                      !.pcItems = pn[1], !.nCount = pn[2]],
       firstOf(license, Str, l, r, pn[1], pn[2]))

mdz_ansi_16_firstNotOf ==
  /\ pc = "idle"
  /\ \E l \in PosIn, r \in WinPos, pn \in SetItems :
    Do([NoCall EXCEPT !.op = "firstNotOf", !.nLeftPos = l, !.nRightPos = r,
                      !.pcItems = pn[1], !.nCount = pn[2]],
       firstNotOf(license, Str, l, r, pn[1], pn[2]))

mdz_ansi_16_lastOf ==
  /\ pc = "idle"
  /\ \E l \in PosIn, r \in WinPos, pn \in SetItems :
    Do([NoCall EXCEPT !.op = "lastOf", !.nLeftPos = l, !.nRightPos = r,
                      !.pcItems = pn[1], !.nCount = pn[2]],
       lastOf(license, Str, l, r, pn[1], pn[2]))

mdz_ansi_16_lastNotOf ==
  /\ pc = "idle"
  /\ \E l \in PosIn, r \in WinPos, pn \in SetItems :
    Do([NoCall EXCEPT !.op = "lastNotOf", !.nLeftPos = l, !.nRightPos = r,
                      !.pcItems = pn[1], !.nCount = pn[2]],
       lastNotOf(license, Str, l, r, pn[1], pn[2]))

mdz_ansi_16_removeFrom ==
  /\ pc = "idle"
  /\ \E l \in PosIn, n \in 0..(size + 1) :
    Do([NoCall EXCEPT !.op = "removeFrom", !.nLeftPos = l, !.nCount = n],
       removeFrom(license, Str, l, n))

mdz_ansi_16_remove ==
  /\ pc = "idle"
  /\ \E l \in PosIn, r \in WinPos, pn \in ExtItems, fl \in BOOLEAN :
    Do([NoCall EXCEPT !.op = "remove", !.nLeftPos = l, !.nRightPos = r,
                      !.pcItems = pn[1], !.nCount = pn[2], !.bFromLeft = fl],
       remove(license, Str, l, r, pn[1], pn[2], fl))

mdz_ansi_16_trimLeft ==
  /\ pc = "idle"
  /\ \E l \in PosIn, r \in WinPos, pn \in SetItems :
    Do([NoCall EXCEPT !.op = "trimLeft", !.nLeftPos = l, !.nRightPos = r,
                      !.pcItems = pn[1], !.nCount = pn[2]],
       trimLeft(license, Str, l, r, pn[1], pn[2]))

mdz_ansi_16_trimRight ==
  /\ pc = "idle"
  /\ \E l \in PosIn, r \in WinPos, pn \in SetItems :
    Do([NoCall EXCEPT !.op = "trimRight", !.nLeftPos = l, !.nRightPos = r,
                      !.pcItems = pn[1], !.nCount = pn[2]],
       trimRight(license, Str, l, r, pn[1], pn[2]))

mdz_ansi_16_trim ==
  /\ pc = "idle"
  /\ \E l \in PosIn, r \in WinPos, pn \in SetItems :
    Do([NoCall EXCEPT !.op = "trim", !.nLeftPos = l, !.nRightPos = r,
                      !.pcItems = pn[1], !.nCount = pn[2]],
       trim(license, Str, l, r, pn[1], pn[2]))

mdz_ansi_16_compare(Items) ==
  /\ pc = "idle"
  /\ \E l \in PosIn, pn \in Items, partial \in BOOLEAN :
    Do([NoCall EXCEPT !.op = "compare", !.nLeftPos = l,
                      !.pcItems = pn[1], !.nCount = pn[2], !.bFlag = partial],
       compare(license, Str, l, pn[1], pn[2], partial))

mdz_ansi_16_count(Items) ==
  /\ pc = "idle"
  /\ \E l \in PosIn, r \in WinPos, pn \in Items, ov \in BOOLEAN, fl \in BOOLEAN :
    Do([NoCall EXCEPT !.op = "count", !.nLeftPos = l, !.nRightPos = r,
                      !.pcItems = pn[1], !.nCount = pn[2], !.bFlag = ov, !.bFromLeft = fl],
       count(license, Str, l, r, pn[1], pn[2], ov, fl))

mdz_ansi_16_replace(Pairs, Types) ==
  /\ pc = "idle"
  /\ \E l \in PosIn, r \in WinPos, ba \in Pairs, fl \in BOOLEAN, t \in Types :
    LET b == ba[1]
        a == ba[2]
    IN
    Do([NoCall EXCEPT !.op = "replace", !.nLeftPos = l, !.nRightPos = r,
                      !.pcItems = b[1], !.nCount = b[2],
                      !.pcItemsAfter = a[1], !.nCountAfter = a[2],
                      !.bFromLeft = fl, !.enReplacementType = t],
       replace(license, Str, l, r, b[1], b[2], a[1], a[2], fl, t))

mdz_ansi_16_reverse ==
  /\ pc = "idle"
  /\ \E l \in PosIn, r \in WinPos :
    Do([NoCall EXCEPT !.op = "reverse", !.nLeftPos = l, !.nRightPos = r],
       reverse(license, Str, l, r))

\* ------------------------------------------------------------------- spec
\* the state after mdz_ansi_16_init: the license is valid or it is not
Init ==
  /\ license \in BOOLEAN
  /\ attached = FALSE
  /\ size = 0
  /\ capacity = 0
  /\ data = [i \in {0} |-> 0]
  /\ pc = "idle"
  /\ call = NoCall
  /\ pre = NoStr
  /\ inserted = NoInsert

Next ==
  \/ mdz_ansi_16_attach
  \/ mdz_ansi_16_insert
  \/ mdz_ansi_16_findSingle
  \/ mdz_ansi_16_find(ExtItems)
  \/ mdz_ansi_16_rfindSingle
  \/ mdz_ansi_16_rfind
  \/ mdz_ansi_16_firstOf
  \/ mdz_ansi_16_firstNotOf
  \/ mdz_ansi_16_lastOf
  \/ mdz_ansi_16_lastNotOf
  \/ mdz_ansi_16_removeFrom
  \/ mdz_ansi_16_remove
  \/ mdz_ansi_16_trimLeft
  \/ mdz_ansi_16_trimRight
  \/ mdz_ansi_16_trim
  \/ mdz_ansi_16_compare(ExtItems)
  \/ mdz_ansi_16_count(ExtItems)
  \/ mdz_ansi_16_replace(ExtPairs \cup OwnPairs(capacity), {"MDZ_ANSI_REPLACE_DUAL"})
  \/ mdz_ansi_16_replace(BytePairs, ReplaceTypes \ {"MDZ_ANSI_REPLACE_DUAL"})
  \/ mdz_ansi_16_reverse
  \/ Return

Spec == Init /\ [][Next]_vars

\* a caller that inserts and takes out again
NextUndo ==
  \/ mdz_ansi_16_attach
  \/ mdz_ansi_16_insert
  \/ mdz_ansi_16_removeFrom
  \/ ReturnAfterInsert
  \/ Return

SpecUndo == Init /\ [][NextUndo]_vars

\* substring search on its own: any full string of up to MaxFindCap bytes (the
\* strings attach and insert build), any window, any pattern of up to MaxFindCount
InitFind ==
  /\ license = TRUE
  /\ attached = TRUE
  /\ capacity \in 0..MaxFindCap
  /\ size = capacity
  /\ data \in {d \in [0..capacity -> Byte] : d[capacity] = 0}
  /\ pc = "idle"
  /\ call = NoCall
  /\ pre = NoStr
  /\ inserted = NoInsert

NextFind ==
  \/ mdz_ansi_16_find(FindItems)
  \/ Return

SpecFind == InitFind /\ [][NextFind]_vars


\* reverse on its own, on any full string of up to MaxFindCap bytes
NextReverse ==
  \/ mdz_ansi_16_reverse
  \/ Return

SpecReverse == InitFind /\ [][NextReverse]_vars

\* count on its own, with the strings and patterns of the substring-search runs
NextCount ==
  \/ mdz_ansi_16_count(FindItems)
  \/ Return

SpecCount == InitFind /\ [][NextCount]_vars

\* trim on its own, on any full string of up to MaxFindCap bytes and the strings
\* it leaves
NextTrim ==
  \/ mdz_ansi_16_trim
  \/ Return

SpecTrim == InitFind /\ [][NextTrim]_vars

\* compare on its own, with the strings and patterns of the substring-search runs
NextCompare ==
  \/ mdz_ansi_16_compare(FindItems)
  \/ Return

SpecCompare == InitFind /\ [][NextCompare]_vars

\* replace on its own: a string in a buffer of up to MaxFindCap bytes that may
\* have room left behind it (zeroed, as after attach with nOffsetFromStart = 0)
InitRewrite ==
  /\ license = TRUE
  /\ attached = TRUE
  /\ capacity \in 0..MaxFindCap
  /\ size \in 0..capacity
  /\ data \in {d \in [0..capacity -> Byte] : \A i \in size..capacity : d[i] = 0}
  /\ pc = "idle"
  /\ call = NoCall
  /\ pre = NoStr
  /\ inserted = NoInsert

NextRewrite ==
  \/ mdz_ansi_16_replace(RewritePairs, {"MDZ_ANSI_REPLACE_DUAL"})
  \/ Return

SpecRewrite == InitRewrite /\ [][NextRewrite]_vars
\* ------------------------------------------------------------- properties
\* the call op has returned and its result is in call
Returned(op) == pc = "returned" /\ call.op = op

\* the call that returned left the string exactly as it found it
Untouched ==
  /\ attached = pre.attached
  /\ size = pre.size
  /\ capacity = pre.capacity
  /\ data = pre.data

Mutators == {"insert", "removeFrom", "remove", "trimLeft", "trimRight", "trim",
             "replace", "reverse"}

\* functions with a window [nLeftPos, nRightPos]
WindowOps == {"findSingle", "rfindSingle", "find", "rfind", "firstOf", "firstNotOf",
              "lastOf", "lastNotOf", "remove", "trimLeft", "trimRight", "trim",
              "count", "replace", "reverse"}
\* ... of which these look for a whole items array in the window
WindowCountOps == {"find", "rfind", "remove", "count", "replace"}
\* functions with nLeftPos and nCount reaching to the end of the string
TailOps == {"removeFrom", "compare"}
\* functions with an items array and a count
ItemsOps == {"insert", "find", "rfind", "firstOf", "firstNotOf", "lastOf", "lastNotOf",
             "remove", "trimLeft", "trimRight", "trim", "compare", "count", "replace"}
ZeroSizeOps == {"removeFrom", "remove", "trimLeft", "trimRight", "trim", "replace"}

\* the bytes the items argument designated when the call started
ItemsOf == Deref(call.pcItems, call.nCount, pre.data)

\* some address of [p; p + n) is an address of [Data; Data + last]
Intersects(p, n, last) ==
  p.k = "int" /\ \E a \in p.off..(p.off + n - 1) : a \in 0..last

\* reference scan: every position of [l, r] where items fits and matches
NaiveMatches(d, l, r, items) ==
  {p \in l..(r - Len(items) + 1) : \A i \in 1..Len(items) : d[p + i - 1] = items[i]}

NaiveFind(d, l, r, items) ==
  LET M == NaiveMatches(d, l, r, items) IN IF M = {} THEN SIZE_MAX ELSE Min(M)

\* reference count of the occurrences a replace rewrites: the nearest one in the
\* scan direction, then those of the window beyond it
RECURSIVE NaiveReplaceCount(_, _, _, _, _)
NaiveReplaceCount(d, l, r, items, bFromLeft) ==
  LET M == NaiveMatches(d, l, r, items) IN
  IF M = {} THEN 0
  ELSE IF bFromLeft THEN 1 + NaiveReplaceCount(d, Min(M) + Len(items), r, items, bFromLeft)
  ELSE 1 + NaiveReplaceCount(d, l, Max(M) - 1, items, bFromLeft)

\* Size a replace call would leave, by the reference count
GrownSize ==
  pre.size + NaiveReplaceCount(pre.data, call.nLeftPos, call.nRightPos, ItemsOf, call.bFromLeft)
             * (call.nCountAfter - call.nCount)

\* the violations a call can commit, read off its arguments and the string it got
NoLicense == ~license
NoHandle == ~pre.attached
NoCapacity == call.op \in {"insert", "replace"} /\ pre.capacity = 0
NoSize == call.op \in ZeroSizeOps /\ pre.size = 0
NoItems == call.op \in ItemsOps /\ call.pcItems.k = "null"
NoCount == call.op \in (ItemsOps \cup {"removeFrom"}) /\ call.nCount = 0
BadRight == call.op \in WindowOps /\ call.nRightPos >= pre.size
BadLeft ==
  IF call.op = "insert" THEN call.nLeftPos > pre.size
  ELSE IF call.op \in TailOps THEN call.nLeftPos >= pre.size
  ELSE IF call.op = "reverse" THEN call.nLeftPos >= call.nRightPos
  ELSE call.nLeftPos > call.nRightPos
BadCount ==
  IF call.op \in WindowCountOps THEN call.nCount > call.nRightPos - call.nLeftPos + 1
  ELSE IF call.op \in TailOps THEN call.nCount > pre.size - call.nLeftPos
  ELSE FALSE
NoRoom ==
  IF call.op = "insert" THEN pre.size + call.nCount > pre.capacity
  ELSE IF call.op = "replace" THEN GrownSize > pre.capacity
  ELSE FALSE
Aliased ==
  IF call.op = "insert" THEN Intersects(call.pcItems, call.nCount, pre.size + call.nCount)
  ELSE IF call.op = "replace"
       THEN \/ Intersects(call.pcItems, call.nCount, pre.size)
            \/ Intersects(call.pcItemsAfter, call.nCountAfter, pre.size)
  ELSE FALSE
AliasedAfter ==
  /\ call.op = "replace"
  /\ \/ Intersects(call.pcItems, call.nCount, GrownSize)
     \/ Intersects(call.pcItemsAfter, call.nCountAfter, GrownSize)
RoomError == IF call.op = "insert" THEN "MDZ_ERROR_BIG_COUNT" ELSE "MDZ_ERROR_BIG_REPLACE"

\* a call that passes every check up to the range checks, and the range checks too
Sane == ~NoLicense /\ ~NoHandle /\ ~NoCapacity /\ ~NoSize /\ ~NoItems /\ ~NoCount
InRange == Sane /\ ~BadRight /\ ~BadLeft /\ ~BadCount

\* the error of a call is that of its first violation in the order license,
\* handle, capacity and size integrity, argument presence, range, and then room
\* before aliasing for the functions of RoomFirst, aliasing before room for the rest
ErrorOrder(RoomFirst) ==
  (pc = "returned" /\ call.op \notin {"none", "attach"}) =>
    /\ NoLicense => call.err = "MDZ_ERROR_LICENSE"
    /\ (~NoLicense /\ NoHandle) => call.err = "MDZ_ERROR_DATA"
    /\ (~NoLicense /\ ~NoHandle /\ NoCapacity) => call.err = "MDZ_ERROR_CAPACITY"
    /\ (~NoLicense /\ ~NoHandle /\ ~NoCapacity /\ NoSize) => call.err = "MDZ_ERROR_ZERO_SIZE"
    /\ (~NoLicense /\ ~NoHandle /\ ~NoCapacity /\ ~NoSize /\ NoItems)
         => call.err = "MDZ_ERROR_ITEMS"
    /\ (~NoLicense /\ ~NoHandle /\ ~NoCapacity /\ ~NoSize /\ ~NoItems /\ NoCount)
         => call.err = "MDZ_ERROR_ZERO_COUNT"
    /\ (Sane /\ BadRight) => call.err = "MDZ_ERROR_BIG_RIGHT"
    /\ (Sane /\ ~BadRight /\ BadLeft) => call.err = "MDZ_ERROR_BIG_LEFT"
    /\ (Sane /\ ~BadRight /\ ~BadLeft /\ BadCount) => call.err = "MDZ_ERROR_BIG_COUNT"
    /\ (InRange /\ call.op \in RoomFirst) =>
         /\ NoRoom => call.err = RoomError
         /\ (~NoRoom /\ Aliased) => call.err = "MDZ_ERROR_OVERLAP"
    /\ (InRange /\ call.op \notin RoomFirst) =>
         /\ Aliased => call.err = "MDZ_ERROR_OVERLAP"
         /\ (~Aliased /\ NoRoom) => call.err = RoomError
    /\ (InRange /\ ~Aliased /\ ~NoRoom) =>
         call.err = IF AliasedAfter THEN "MDZ_ERROR_OVERLAP_REPLACE" ELSE "MDZ_ERROR_NONE"

\* C1: while a string is attached, 0 <= Size <= Capacity and Data[Size] is the
\* 0-terminator, after attach and after every call, failed or not
C1_SizeBoundedAndTerminated ==
  attached => (0 <= size /\ size <= capacity /\ data[size] = 0)

\* a replace has grown the string to exactly its Capacity
C1_Witness ==
  /\ Returned("replace")
  /\ call.err = "MDZ_ERROR_NONE"
  /\ pre.size < size
  /\ size = capacity

C3_RoomBeforeOverlapEverywhere == ErrorOrder({"insert", "replace"})

\* C3: the error of a call is that of its earliest violated check in the order
\* license, handle, capacity and size integrity, argument presence, range; then for
\* insert MDZ_ERROR_BIG_COUNT before MDZ_ERROR_OVERLAP, and for replace
\* MDZ_ERROR_OVERLAP before MDZ_ERROR_BIG_REPLACE before MDZ_ERROR_OVERLAP_REPLACE
C3_ErrorOrder == ErrorOrder({"insert"})

\* a replace whose items lie in Data and whose result would not fit either
C3_Witness ==
  /\ Returned("replace")
  /\ InRange
  /\ Aliased
  /\ NoRoom
  /\ call.err = "MDZ_ERROR_OVERLAP"

\* a call on a licensed, attached string whose items (where the function takes
\* any) are present and not empty
PresentArguments ==
  /\ pc = "returned"
  /\ call.op \in WindowOps
  /\ license
  /\ pre.attached
  /\ ~NoItems
  /\ ~NoCount

\* C4 as stated: nLeftPos > nRightPos gives MDZ_ERROR_BIG_LEFT and no mutation,
\* whatever nRightPos and Size are
C4_BigLeftForEveryRightPos ==
  (PresentArguments /\ call.nLeftPos > call.nRightPos)
    => (call.err = "MDZ_ERROR_BIG_LEFT" /\ Untouched)

\* C4: nLeftPos > nRightPos with nRightPos < Size gives MDZ_ERROR_BIG_LEFT and no
\* mutation; with nRightPos >= Size the call fails as well, with the error of an
\* earlier check (MDZ_ERROR_CAPACITY, MDZ_ERROR_ZERO_SIZE or MDZ_ERROR_BIG_RIGHT)
C4_BigLeftInsideString ==
  (PresentArguments /\ call.nLeftPos > call.nRightPos) =>
    /\ Untouched
    /\ call.err = IF call.nRightPos < pre.size THEN "MDZ_ERROR_BIG_LEFT"
                  ELSE IF NoCapacity THEN "MDZ_ERROR_CAPACITY"
                  ELSE IF NoSize THEN "MDZ_ERROR_ZERO_SIZE"
                  ELSE "MDZ_ERROR_BIG_RIGHT"

\* a replace with its window the wrong way round inside the string
C4_Witness ==
  /\ PresentArguments
  /\ call.op = "replace"
  /\ call.nLeftPos > call.nRightPos
  /\ call.nRightPos < pre.size
  /\ call.err = "MDZ_ERROR_BIG_LEFT"

\* C5: attach succeeds exactly when the license is valid, pcBuffer is not NULL and
\* nBufferSize >= 5; otherwise it returns NULL with MDZ_ERROR_LICENSE,
\* MDZ_ERROR_DATA or MDZ_ERROR_CAPACITY in that priority; on success
\* Capacity = nBufferSize - 5, Size = 0 and Data[0] = 0
C5_Attach ==
  Returned("attach") =>
    /\ call.err = "MDZ_ERROR_NONE"
         <=> (license /\ call.pcBuffer.k # "null" /\ call.nBufferSize >= 5)
    /\ ~license => call.err = "MDZ_ERROR_LICENSE"
    /\ (license /\ call.pcBuffer.k = "null") => call.err = "MDZ_ERROR_DATA"
    /\ (license /\ call.pcBuffer.k # "null" /\ call.nBufferSize < 5)
         => call.err = "MDZ_ERROR_CAPACITY"
    /\ call.err # "MDZ_ERROR_NONE" => (call.ret = "NULL" /\ Untouched)
    /\ call.err = "MDZ_ERROR_NONE" =>
         /\ call.ret = "handle"
         /\ attached
         /\ capacity = call.nBufferSize - 5
         /\ size = 0
         /\ data[0] = 0

\* an attach of a buffer with room for Data succeeded over bytes that were not 0
C5_Witness ==
  /\ Returned("attach")
  /\ call.err = "MDZ_ERROR_NONE"
  /\ call.nBufferSize > 5
  /\ \E i \in 1..capacity : data[i] # 0

\* C6: for a window nLeftPos <= nRightPos < Size and a non-empty pattern, find
\* returns what the reference scan returns: the smallest matching position that
\* fits the window, SIZE_MAX when there is none or the pattern is longer than the
\* window; the string is not changed
C6_FindAgreesWithNaiveScan ==
  (Returned("find") /\ Sane /\ call.nLeftPos <= call.nRightPos /\ call.nRightPos < pre.size) =>
    /\ call.ret = NaiveFind(pre.data, call.nLeftPos, call.nRightPos, ItemsOf)
    /\ call.nCount <= call.nRightPos - call.nLeftPos + 1 => call.err = "MDZ_ERROR_NONE"
    /\ Untouched

\* a pattern of the greatest length found past the start of its window
C6_Witness ==
  /\ Returned("find")
  /\ call.err = "MDZ_ERROR_NONE"
  /\ call.nCount = MaxFindCount
  /\ call.ret # SIZE_MAX
  /\ call.ret > call.nLeftPos

\* a replace with valid arguments, its arrays outside Data, that makes matches longer
GrowingReplace ==
  /\ Returned("replace")
  /\ InRange
  /\ call.pcItems.k = "ext"
  /\ call.pcItemsAfter.k = "ext"
  /\ call.nCountAfter > call.nCount

\* C7: a growing replace with k occurrences succeeds exactly when
\* Size + k * (nCountAfter - nCountBefore) <= Capacity, equality included, and
\* leaves that Size; otherwise it fails with MDZ_ERROR_BIG_REPLACE and the string
\* is as it was
C7_GrowingReplaceFitsCapacity ==
  GrowingReplace =>
    IF GrownSize <= pre.capacity
    THEN call.err = "MDZ_ERROR_NONE" /\ size = GrownSize /\ capacity = pre.capacity
    ELSE call.err = "MDZ_ERROR_BIG_REPLACE" /\ Untouched

\* a growing replace that used up the Capacity to the last byte
C7_Witness ==
  /\ GrowingReplace
  /\ call.err = "MDZ_ERROR_NONE"
  /\ GrownSize > pre.size
  /\ size = capacity

\* the values mdz_ansi_16_replace returns
ReplaceErrors ==
  {"MDZ_ERROR_LICENSE", "MDZ_ERROR_DATA", "MDZ_ERROR_CAPACITY", "MDZ_ERROR_BIG_SIZE",
   "MDZ_ERROR_ZERO_SIZE", "MDZ_ERROR_TERMINATOR", "MDZ_ERROR_ITEMS", "MDZ_ERROR_ZERO_COUNT",
   "MDZ_ERROR_BIG_RIGHT", "MDZ_ERROR_BIG_LEFT", "MDZ_ERROR_BIG_COUNT", "MDZ_ERROR_OVERLAP",
   "MDZ_ERROR_BIG_REPLACE", "MDZ_ERROR_OVERLAP_REPLACE", "MDZ_ERROR_NONE"}

\* C8: a replace with otherwise valid arguments and an enReplacementType other
\* than MDZ_ANSI_REPLACE_DUAL fails with an error of its own, one that is none of
\* the validation errors and not success, and leaves the string as it was
C8_UnsupportedTypeRejected ==
  (/\ Returned("replace")
   /\ InRange /\ ~Aliased /\ ~NoRoom /\ ~AliasedAfter
   /\ call.enReplacementType # "MDZ_ANSI_REPLACE_DUAL")
    => (call.err \notin ReplaceErrors /\ Untouched)

\* an insert with valid arguments and room for the items
RoomyInsert ==
  /\ Returned("insert")
  /\ Sane
  /\ call.nLeftPos <= pre.size
  /\ pre.size + call.nCount <= pre.capacity

\* C9: an insert of items whose addresses meet [Data; Data + Size + nCount] fails
\* with MDZ_ERROR_OVERLAP and leaves the string as it was; an insert of items from
\* outside succeeds and puts them at nLeftPos, whatever their bytes are
C9_InsertOverlapByAddress ==
  RoomyInsert =>
    IF Intersects(call.pcItems, call.nCount, pre.size + call.nCount)
    THEN call.err = "MDZ_ERROR_OVERLAP" /\ Untouched
    ELSE /\ call.err = "MDZ_ERROR_NONE"
         /\ size = pre.size + call.nCount
         /\ \A i \in 1..call.nCount : data[call.nLeftPos + i - 1] = ItemsOf[i]

\* an insert of bytes of the string's own content was refused
C9_Witness ==
  /\ RoomyInsert
  /\ call.pcItems.k = "int"
  /\ call.pcItems.off + call.nCount <= pre.size
  /\ call.err = "MDZ_ERROR_OVERLAP"

\* C10: removeFrom(nLeftPos, nCount) right after a successful
\* insert(nLeftPos, items, nCount) succeeds and gives back the Size, the content
\* bytes and the terminator the string had before the insert
C10_InsertThenRemoveFromRestores ==
  inserted.st = "done" =>
    /\ call.err = "MDZ_ERROR_NONE"
    /\ size = inserted.before.size
    /\ capacity = inserted.before.capacity
    /\ \A i \in 0..size : data[i] = inserted.before.data[i]

\* bytes put between two bytes of the content were taken out again
C10_Witness ==
  /\ inserted.st = "done"
  /\ 0 < inserted.nLeftPos
  /\ inserted.nLeftPos < inserted.before.size
  /\ call.err = "MDZ_ERROR_NONE"

\* C11: reverse of a range nLeftPos < nRightPos < Size succeeds, puts byte i of the
\* range at nLeftPos + nRightPos - i, leaves Size and every byte outside the range
\* as they were, and a second reverse of the same range gives the original bytes
C11_ReverseMirrorsAndUndoes ==
  (Returned("reverse") /\ Sane /\ call.nLeftPos < call.nRightPos /\ call.nRightPos < pre.size) =>
    /\ call.err = "MDZ_ERROR_NONE"
    /\ size = pre.size
    /\ capacity = pre.capacity
    /\ \A i \in 0..capacity :
         data[i] = IF call.nLeftPos <= i /\ i <= call.nRightPos
                   THEN pre.data[call.nLeftPos + call.nRightPos - i]
                   ELSE pre.data[i]
    /\ reverse(license, Str, call.nLeftPos, call.nRightPos).data = pre.data

\* a range of four bytes or more, not a palindrome, was reversed
C11_Witness ==
  /\ Returned("reverse")
  /\ call.err = "MDZ_ERROR_NONE"
  /\ call.nRightPos - call.nLeftPos >= 3
  /\ data # pre.data

\* a count call that passes every check
ValidCount == Returned("count") /\ InRange

\* C12: a valid count returns, with bAllowOverlapped, the number of positions of
\* the window where the pattern fits and matches, and without it the number of
\* matches of a scan that goes on past each match; never SIZE_MAX, 0 when nothing
\* matches; the string is not changed
C12_CountAgreesWithReference ==
  ValidCount =>
    /\ call.err = "MDZ_ERROR_NONE"
    /\ call.ret # SIZE_MAX
    /\ call.ret = IF call.bFlag
                  THEN Cardinality(NaiveMatches(pre.data, call.nLeftPos, call.nRightPos, ItemsOf))
                  ELSE NaiveReplaceCount(pre.data, call.nLeftPos, call.nRightPos, ItemsOf,
                                         call.bFromLeft)
    /\ Untouched

\* two bytes matching at three positions of a window were counted as 2
C12_Witness ==
  /\ ValidCount
  /\ ~call.bFlag
  /\ call.nCount = 2
  /\ Cardinality(NaiveMatches(pre.data, call.nLeftPos, call.nRightPos, ItemsOf)) = 3
  /\ call.ret = 2

\* C13: a valid count returns the number the same call returns with the opposite
\* bFromLeft
C13_CountSameInBothDirections ==
  ValidCount =>
    call.ret = count(license, pre, call.nLeftPos, call.nRightPos, call.pcItems, call.nCount,
                     call.bFlag, ~call.bFromLeft).ret

\* a count from the right, without overlaps, whose first match is not the one a
\* scan from the left finds last
C13_Witness ==
  /\ ValidCount
  /\ ~call.bFlag
  /\ ~call.bFromLeft
  /\ call.ret >= 1
  /\ LET M == NaiveMatches(pre.data, call.nLeftPos, call.nRightPos, ItemsOf)
     IN Cardinality(M) = call.ret + 1

\* a trim call that passes every check
ValidTrim == Returned("trim") /\ InRange

\* the bytes of the items array of the returned call, as a set
MembersOf == {ItemsOf[i] : i \in 1..call.nCount}

\* reference: how many bytes from nLeftPos on, and how many back from nRightPos,
\* are members, the second counted only in a window that is not all members
LeadingMembers ==
  Max({k \in 0..(call.nRightPos - call.nLeftPos + 1) :
         \A i \in call.nLeftPos..(call.nLeftPos + k - 1) : pre.data[i] \in MembersOf})
TrailingMembers ==
  IF LeadingMembers = call.nRightPos - call.nLeftPos + 1 THEN 0
  ELSE Max({k \in 0..(call.nRightPos - call.nLeftPos + 1) :
              \A i \in (call.nRightPos - k + 1)..call.nRightPos : pre.data[i] \in MembersOf})

\* C14: a valid trim removes the longest run of members from nLeftPos on and the
\* longest run of members ending at nRightPos (a window of members only is
\* removed once), Size goes down by the number of removed bytes, the other bytes
\* keep their order, and Data[Size] = 0
C14_TrimRemovesBothRuns ==
  ValidTrim =>
    LET a == LeadingMembers
        b == TrailingMembers
        kept == call.nRightPos - call.nLeftPos + 1 - a - b
    IN /\ call.err = "MDZ_ERROR_NONE"
       /\ size = pre.size - a - b
       /\ capacity = pre.capacity
       /\ data[size] = 0
       /\ \A i \in 0..(size - 1) :
            data[i] = IF i < call.nLeftPos THEN pre.data[i]
                      ELSE IF i < call.nLeftPos + kept THEN pre.data[i + a]
                      ELSE pre.data[i + a + b]

\* members were taken from both ends of a window and two bytes or more stayed
C14_Witness ==
  /\ ValidTrim
  /\ call.err = "MDZ_ERROR_NONE"
  /\ LeadingMembers >= 1
  /\ TrailingMembers >= 1
  /\ size >= 2
  /\ size = pre.size - LeadingMembers - TrailingMembers

\* a compare call that passes every check
ValidCompare == Returned("compare") /\ InRange

\* the nCount bytes of Data from nLeftPos on are the bytes of the items array
SameBytes == \A i \in 1..call.nCount : pre.data[call.nLeftPos + i - 1] = ItemsOf[i]

\* C15: a valid compare returns MDZ_COMPARE_EQUAL exactly when the nCount bytes
\* from nLeftPos on equal the items and, unless bPartialCompare, they end at Size;
\* otherwise MDZ_COMPARE_NONEQUAL; the string is not changed
C15_CompareResult ==
  ValidCompare =>
    /\ call.err = "MDZ_ERROR_NONE"
    /\ call.ret = IF SameBytes /\ (call.bFlag \/ call.nLeftPos + call.nCount = pre.size)
                  THEN "MDZ_COMPARE_EQUAL" ELSE "MDZ_COMPARE_NONEQUAL"
    /\ Untouched

\* a full compare of matching bytes that stop short of Size was not equal
C15_Witness ==
  /\ ValidCompare
  /\ ~call.bFlag
  /\ SameBytes
  /\ call.nLeftPos + call.nCount < pre.size
  /\ call.ret = "MDZ_COMPARE_NONEQUAL"

\* reference rewrite: the occurrences chosen in the scan direction, nearest first,
\* none overlapping one chosen before
RECURSIVE Chosen(_, _, _, _, _)
Chosen(d, l, r, items, bFromLeft) ==
  LET M == NaiveMatches(d, l, r, items) IN
  IF M = {} THEN {}
  ELSE IF bFromLeft
  THEN {Min(M)} \cup Chosen(d, Min(M) + Len(items), r, items, bFromLeft)
  ELSE {Max(M)} \cup Chosen(d, l, Max(M) - 1, items, bFromLeft)

\* the copy, built byte by byte from position i of the original on: the
\* replacement where an occurrence starts, nothing inside one, the byte elsewhere
RECURSIVE Rewritten(_, _, _, _, _, _)
Rewritten(d, sz, i, O, nCountBefore, after) ==
  IF i >= sz THEN << >>
  ELSE IF i \in O THEN after \o Rewritten(d, sz, i + nCountBefore, O, nCountBefore, after)
  ELSE <<d[i]>> \o Rewritten(d, sz, i + 1, O, nCountBefore, after)

AfterOf == IF call.nCountAfter = 0 THEN << >>
           ELSE Deref(call.pcItemsAfter, call.nCountAfter, pre.data)
ChosenOf == Chosen(pre.data, call.nLeftPos, call.nRightPos, ItemsOf, call.bFromLeft)
RewrittenOf == Rewritten(pre.data, pre.size, 0, ChosenOf, call.nCount, AfterOf)

====
